---------------------------- MODULE Spec2Model ----------------------------
(***************************************************************************)
(* A model of qtl/pileup.py: samtools_depth (a multiprocessing pool of     *)
(* depth tasks, each optionally run inside the cd() context manager),      *)
(* norm_pileups, group_pileups and the trace ordering of plot.             *)
(*                                                                         *)
(* Three specifications share the module, one per part of the pipeline:    *)
(*   SpecDepth  samtools_depth and its worker pool                         *)
(*   SpecTable  norm_pileups and group_pileups                             *)
(*   SpecPlot   the ordering and drawing loop of plot                      *)
(* Each leaves the variables of the other parts at their initial values.   *)
(***************************************************************************)
EXTENDS Integers, Sequences, FiniteSets, TLC

VARIABLES
    \* ---- samtools_depth: arguments
    bam_s,          \* sequence of <<sample_id, bam_path>>, in bam_s.items() order
    num_threads,    \* size of the worker pool
    bam_index_dir,  \* "none" (None), "abs" (absolute path) or "rel" (relative path)
    fsDepth,        \* how many times bam_index_dir resolves when applied repeatedly
    \* ---- pool workers (each worker is its own process, with its own cwd)
    nextTask,       \* index of the next task the pool hands to a free worker
    wpc,            \* worker -> "idle" | "call"
    wtask,          \* worker -> task it is running (0: none)
    cwd,            \* worker -> working directory of that process
    saved_path,     \* worker -> saved_path of its last cd() (NoDir: cd() never entered)
    inScope,        \* worker -> TRUE while inside `with cd(...)`
    status,         \* task -> "queued" | "running" | "done" | "failed"
    result,         \* task -> the column returned by the wrapper (NoCol: none)
    callCwd,        \* task -> directory the external call ran in (NoDir: no call)
    outOfOrder,     \* TRUE once a task has ended before one submitted earlier
    \* ---- samtools_depth: the caller's loop
    consumed,       \* number of results taken from pool.imap so far
    pileups_df,     \* the list of columns appended so far / the merged table
    callState,      \* "running" | "returned" | "error"
    \* ---- norm_pileups / group_pileups: arguments
    op,             \* the function called: "norm" | "group"
    pileups_in,     \* the pileups_df argument: sequence of [label, vals]
    libsize_s,      \* sample_id -> library size (a function on the ids it covers)
    id_map,         \* "default" (first two segments) | "identity"
    genotypes,      \* [kind |-> "series" | "vcf" | "other", g |-> label -> dosage]
    \* ---- norm_pileups / group_pileups: results
    tpc,            \* "start" | "normed" | "normed2" | "grouped" | "error"
    pileups_rpm_df, \* the normalized table (NoTable: not computed)
    renorm_df,      \* norm_pileups applied to its own result (NoTable: not computed)
    group_df,       \* the table returned by group_pileups (NoTable: none)
    err,            \* "none" | "KeyError" | "ValueError"
    \* ---- plot: arguments
    pileup_dfs,     \* the list of tables, one per panel: each a sequence of [label, vals]
    order,          \* [kind |-> "additive" | "sorted" | "none" | "list", list |-> keys]
    \* ---- plot: the ordering and the drawing loop
    ppc,            \* "start" | "draw" | "done"
    sorder,         \* the keys in drawing order (labels, or positions for "sorted")
    panel,          \* k of the loop over axv
    trace,          \* index into sorder of the loop over sorder
    drawn           \* panel -> the labels of the columns drawn, in drawing order

depthVars == <<bam_s, num_threads, bam_index_dir, fsDepth, nextTask, wpc, wtask,
               cwd, saved_path, inScope, status, result, callCwd, outOfOrder,
               consumed, pileups_df, callState>>

tableVars == <<op, pileups_in, libsize_s, id_map, genotypes, tpc, pileups_rpm_df,
               renorm_df, group_df, err>>

plotVars == <<pileup_dfs, order, ppc, sorder, panel, trace, drawn>>

vars == <<depthVars, tableVars, plotVars>>

-----------------------------------------------------------------------------
(* Bounds *)
NumIds == 3
MaxThreads == 2
MaxFsDepth == 2
NumPos == 2
MaxDepth == 1
MaxDosage == 1
MaxLabel == 2

-----------------------------------------------------------------------------
(* Sample identifiers, as the list of their '-' separated segments. *)
AllSampleIds == << <<"X">>, <<"G", "1", "a">>, <<"G", "1", "b">>, <<"G", "2", "a">>,
                   <<"G", "2", "b">> >>

SampleIds == {AllSampleIds[i] : i \in 1..(IF NumIds < 5 THEN NumIds ELSE 5)}

\* bam_s maps sample_id -> bam_path; every sample has its own file.
BamPath(id) == <<"bam">> \o id

Range(q) == {q[i] : i \in 1..Len(q)}

RECURSIVE DistinctOfLen(_, _)
DistinctOfLen(S, n) ==
    IF n = 0 THEN {<<>>}
    ELSE {Append(p[1], p[2]) :
            p \in {pp \in DistinctOfLen(S, n - 1) \X S : pp[2] \notin Range(pp[1])}}

\* The non-empty sequences of distinct elements of S.
DistinctSeqs(S) == UNION {DistinctOfLen(S, n) : n \in 1..Cardinality(S)}

-----------------------------------------------------------------------------
(* Directories.  A directory is the number of times bam_index_dir has been *)
(* applied to the directory the caller started in: 0 is that directory, 1  *)
(* is the index directory.  An absolute bam_index_dir always names 1.      *)
OrigDir == 0
IndexDir == 1
NoDir == -1
NoCol == [label |-> <<>>, depthsOf |-> <<>>]

Workers == 1..num_threads
Tasks == 1..Len(bam_s)

\* samtools_depth line 56: the argument tuple of task k,
\* (i, region_str, j, bam_index_dir, d) for j, i in bam_s.items()
TaskArgs(k) == [bam_file |-> bam_s[k][2], sample_id |-> bam_s[k][1]]

\* _samtools_depth_wrapper lines 43-45: the column built from the tool's
\* output: named after sample_id, holding the depths of bam_file.
WrapperResult(args) == [label |-> args.sample_id, depthsOf |-> args.bam_file]

\* os.chdir(cd_path) issued from directory d: where it leads, and whether
\* that directory exists.
ChdirTarget(d) == IF bam_index_dir = "abs" THEN IndexDir ELSE d + 1
ChdirOk(d) == ChdirTarget(d) <= fsDepth

\* cd() after the yield, line 24: reached only when the body ends normally;
\* an exception thrown into the generator at the yield leaves it at once.
CdExit(w, ok) == IF ok THEN saved_path[w] ELSE cwd[w]

\* Task k has ended and its result has not been taken by the caller yet.
Unconsumed(k) ==
    \/ status[k] = "failed"
    \/ status[k] = "done" /\ result[k] \notin Range(pileups_df)

\* Mutant of AwaitedTask: the caller takes any result that is ready
\* (imap_unordered).
AwaitedTaskUnordered(c) ==
    IF \E k \in Tasks : Unconsumed(k) THEN CHOOSE k \in Tasks : Unconsumed(k) ELSE c + 1

\* Some task submitted before task k has not ended.
EarlierPending(k) == \E j \in 1..(k - 1) : status[j] \in {"queued", "running"}

\* pool.imap yields results in submission order: the caller waits for the
\* result of task consumed + 1.
AwaitedTask(c) == c + 1

\* Mutant of ResultRaises: the failure of a task is swallowed.
ResultNeverRaises(k) == FALSE

\* next() on the imap iterator re-raises the exception of a failed task.
ResultRaises(k) == status[k] = "failed"

\* pd.concat(pileups_df, axis=1): the columns in list order.
Concat(cols) == cols

-----------------------------------------------------------------------------
(* Exact arithmetic on the cells: a value is a fraction <<n, d>> in lowest *)
(* terms with d > 0.  (The code computes in floating point; the model      *)
(* states its arithmetic over the rationals.)                              *)
RECURSIVE GCD(_, _)
GCD(a, b) == IF b = 0 THEN a ELSE GCD(b, a % b)

Rat(n) == <<n, 1>>

Reduce(n, d) == LET g == GCD(n, d) IN IF n = 0 THEN <<0, 1>> ELSE <<n \div g, d \div g>>

\* r / m and r * m for a positive integer m
RatDivInt(r, m) == LET g == GCD(r[1], m) IN
                   IF r[1] = 0 THEN <<0, 1>> ELSE <<r[1] \div g, r[2] * (m \div g)>>
RatMulInt(r, m) == LET g == GCD(r[2], m) IN <<r[1] * (m \div g), r[2] \div g>>
RatAdd(r, q) == Reduce(r[1] * q[2] + q[1] * r[2], r[2] * q[2])

RECURSIVE RatSum(_)
RatSum(q) == IF q = <<>> THEN <<0, 1>> ELSE RatAdd(q[1], RatSum(Tail(q)))

-----------------------------------------------------------------------------
(* Tables: a sequence of columns [label, vals], vals indexed by position.  *)
TableIds == {AllSampleIds[1], AllSampleIds[2], AllSampleIds[3]}
LibSizes == {1000000, 2000000}
NoTable == <<>>
NaN == -1

\* The depth of a column at position p grows with p from the column's level v.
Profile(v) == [p \in 1..NumPos |-> Rat(v * p)]

InputTables ==
    UNION {{[k \in 1..Len(q) |-> [label |-> q[k], vals |-> Profile(lv[k])]]
              : lv \in [1..Len(q) -> 0..MaxDepth]}
             : q \in DistinctSeqs(TableIds)}

Labels(df) == [k \in 1..Len(df) |-> df[k].label]

\* id_map: the default keeps the first two '-' separated segments (line 65).
IdMapDefault(x) == IF Len(x) <= 2 THEN x ELSE SubSeq(x, 1, 2)
IdMap(im, x) == IF im = "default" THEN IdMapDefault(x) ELSE x

\* Mutant of LibsizeFor: every column is divided by the first column's size.
LibsizeForFirst(ls, df, k) == ls[df[1].label]

\* libsize_s[pileups_df.columns] in pileups_df / ...: the division aligns the
\* library sizes with the columns by label (line 71).
LibsizeFor(ls, df, k) == ls[df[k].label]

\* Reads per million: the factor 1e6 of line 71.
RPM == 1000000

\* Mutant of NormCell: the ratio is inverted (x * size / 1e6).
NormCellInverted(x, size) == RatDivInt(RatMulInt(x, size), RPM)

\* One cell of pileups_df / libsize_s * 1e6 (line 71).
NormCell(x, size) == RatMulInt(RatDivInt(x, size), RPM)

\* norm_pileups with covariates_df = None (lines 71-78): a new table; the
\* lookup of a column without library size raises KeyError.
NormPileups(df, ls, im) ==
    IF \E k \in 1..Len(df) : df[k].label \notin DOMAIN ls
    THEN [err |-> "KeyError", df |-> NoTable]
    ELSE [err |-> "none",
          df |-> [k \in 1..Len(df) |->
                    [label |-> IdMap(im, df[k].label),
                     vals |-> [p \in 1..Len(df[k].vals) |->
                                 NormCell(df[k].vals[p], LibsizeFor(ls, df, k))]]]]

-----------------------------------------------------------------------------
(* group_pileups.  A dosage mapping g is a sequence of <<label, dosage>>   *)
(* entries (a pd.Series: its index and its values); NaN is a missing one.  *)
RECURSIVE Dedupe(_)
Dedupe(q) == IF q = <<>> THEN <<>>
             ELSE LET rest == Dedupe(SubSeq(q, 1, Len(q) - 1))
                  IN  IF q[Len(q)] \in Range(rest) THEN rest ELSE Append(rest, q[Len(q)])

\* The labels the samples of the study have after id_map.
StudyLabels(im) == Dedupe([k \in 1..3 |-> IdMap(im, AllSampleIds[k])])

DosageMappings(im) ==
    LET ls == StudyLabels(im)
    IN  {[k \in 1..Len(ls) |-> <<ls[k], dv[k]>>] : dv \in [1..Len(ls) -> (0..MaxDosage) \cup {NaN}]}

DosageOf(g, l) == LET k == CHOOSE k \in 1..Len(g) : g[k][1] = l IN g[k][2]

\* gt.get_genotype(variant_id, genotypes)[pileups_rpm_df.columns] (line 91):
\* the dosages of the variant file, one entry per column of the table.
GetGenotype(vcf, columns) ==
    [k \in 1..Len(columns) |-> <<columns[k], DosageOf(vcf, columns[k])>>]

\* Mutant of NotNullDosages: the missing dosage is kept as a category.
AllDosages(g) == {g[k][2] : k \in 1..Len(g)}

\* g[g.notnull()] (line 98)
NotNullDosages(g) == {g[k][2] : k \in 1..Len(g)} \ {NaN}

\* np.unique(...).astype(int) (line 98): the distinct values in ascending
\* order.  The dosages are integer categories, stored as floats beside a
\* NaN, which astype(int) gives back as the integers they are.
RECURSIVE Ascending(_)
Ascending(S) == IF S = {} THEN <<>>
                ELSE LET m == CHOOSE x \in S : \A y \in S : x <= y
                     IN  <<m>> \o Ascending(S \ {m})

\* g[g == i].index (line 99): the labels with dosage i, in the order of g
RECURSIVE LabelsWithDosage(_, _)
LabelsWithDosage(g, i) ==
    IF g = <<>> THEN <<>>
    ELSE (IF g[1][2] = i THEN <<g[1][1]>> ELSE <<>>) \o LabelsWithDosage(Tail(g), i)

\* df[[l]]: every column of df labelled l
RECURSIVE ColsLabelled(_, _)
ColsLabelled(df, l) ==
    IF df = <<>> THEN <<>>
    ELSE (IF df[1].label = l THEN <<df[1]>> ELSE <<>>) \o ColsLabelled(Tail(df), l)

\* pileups_rpm_df[labels] (line 99): for each label asked for, the columns
\* of that label
RECURSIVE SelectCols(_, _)
SelectCols(df, ls) ==
    IF ls = <<>> THEN <<>> ELSE ColsLabelled(df, ls[1]) \o SelectCols(df, Tail(ls))

\* .mean(axis=1).rename(i) (line 99)
MeanColumn(cols, i) ==
    [label |-> i,
     vals |-> [p \in 1..NumPos |->
                 LET s == RatSum([k \in 1..Len(cols) |-> cols[k].vals[p]])
                 IN  <<s[1], s[2] * Len(cols)>>]]

ReducedColumn(c) == [label |-> c.label,
                     vals |-> [p \in 1..Len(c.vals) |-> Reduce(c.vals[p][1], c.vals[p][2])]]

\* lines 98-100: average the normalized columns by dosage; selecting a label
\* the table has no column for raises KeyError.
GroupByDosage(rpm, g) ==
    LET cols == Ascending(NotNullDosages(g))
    IN  IF \E k \in 1..Len(cols) : \E l \in Range(LabelsWithDosage(g, cols[k])) :
              l \notin Range(Labels(rpm))
        THEN [err |-> "KeyError", df |-> NoTable]
        ELSE [err |-> "none",
              df |-> [k \in 1..Len(cols) |->
                        ReducedColumn(MeanColumn(SelectCols(rpm, LabelsWithDosage(g, cols[k])),
                                                 cols[k]))]]

\* group_pileups (lines 87-100): normalization first, then the genotype
\* source is resolved, then the averaging.
GroupPileups(df, ls, gts, im) ==
    LET n == NormPileups(df, ls, im)
    IN  IF n.err # "none" THEN [err |-> n.err, rpm |-> NoTable, df |-> NoTable]
        ELSE IF gts.kind = "other"
        THEN [err |-> "ValueError", rpm |-> n.df, df |-> NoTable]
        ELSE LET g == IF gts.kind = "vcf" THEN GetGenotype(gts.g, Labels(n.df)) ELSE gts.g
                 r == GroupByDosage(n.df, g)
             IN  [err |-> r.err, rpm |-> n.df, df |-> r.df]

-----------------------------------------------------------------------------
\* Every assignment of library sizes to some of the samples.
LibsizeMaps == UNION {[D -> LibSizes] : D \in SUBSET TableIds}

\* The library sizes a group_pileups call is given: those of the study
\* (not all equal), or those with the entry of one sample missing.
StudyLibsize == [x \in TableIds |-> IF Len(x) = 1 THEN 2000000
                                    ELSE IF x[3] = "a" THEN 1000000 ELSE 2000000]
GroupLibsizeMaps ==
    {StudyLibsize} \cup {[x \in TableIds \ {y} |-> StudyLibsize[x]] : y \in TableIds}

InitTable ==
    /\ op \in {"norm", "group"}
    /\ pileups_in \in InputTables
    /\ libsize_s \in IF op = "norm" THEN LibsizeMaps ELSE GroupLibsizeMaps
    /\ id_map \in {"default", "identity"}
    /\ genotypes \in
         IF op = "norm" THEN {[kind |-> "other", g |-> <<>>]}
         ELSE {[kind |-> "other", g |-> <<>>]}
              \cup {[kind |-> kd, g |-> g] : kd \in {"series", "vcf"}, g \in DosageMappings(id_map)}
    /\ tpc = "start"
    /\ pileups_rpm_df = NoTable
    /\ renorm_df = NoTable
    /\ group_df = NoTable
    /\ err = "none"
    \* samtools_depth and plot are not called
    /\ bam_s = <<>>
    /\ num_threads = 1
    /\ bam_index_dir = "none"
    /\ fsDepth = 0
    /\ nextTask = 1
    /\ wpc = <<"idle">>
    /\ wtask = <<0>>
    /\ cwd = <<OrigDir>>
    /\ saved_path = <<NoDir>>
    /\ inScope = <<FALSE>>
    /\ status = <<>>
    /\ result = <<>>
    /\ callCwd = <<>>
    /\ outOfOrder = FALSE
    /\ consumed = 0
    /\ pileups_df = <<>>
    /\ callState = "idle"
    /\ pileup_dfs = <<>>
    /\ order = [kind |-> "none", list |-> <<>>]
    /\ ppc = "idle"
    /\ sorder = <<>>
    /\ panel = 0
    /\ trace = 0
    /\ drawn = <<>>

tableInputs == <<op, libsize_s, id_map, genotypes>>

\* A call of norm_pileups(pileups_df, libsize_s, id_map=id_map).
NormCall ==
    /\ op = "norm"
    /\ tpc = "start"
    /\ LET n == NormPileups(pileups_in, libsize_s, id_map)
       IN  /\ err' = n.err
           /\ pileups_rpm_df' = n.df
           /\ tpc' = IF n.err = "none" THEN "normed" ELSE "error"
    \* the division builds a new table and rename(..., inplace=True) acts on
    \* that one: the caller's table is not touched
    /\ UNCHANGED <<tableInputs, pileups_in, renorm_df, group_df, depthVars, plotVars>>

\* norm_pileups called again on its own result, with the identity remap.
NormAgain ==
    /\ op = "norm"
    /\ tpc = "normed"
    /\ id_map = "identity"
    /\ LET n == NormPileups(pileups_rpm_df, libsize_s, id_map)
       IN  /\ err' = n.err
           /\ renorm_df' = n.df
           /\ tpc' = IF n.err = "none" THEN "normed2" ELSE "error"
    /\ UNCHANGED <<tableInputs, pileups_in, pileups_rpm_df, group_df, depthVars, plotVars>>

\* A call of group_pileups(pileups_df, libsize_s, variant_id, genotypes,
\* id_map=id_map); pileups_rpm_df is its local table of that name.
GroupCall ==
    /\ op = "group"
    /\ tpc = "start"
    /\ LET r == GroupPileups(pileups_in, libsize_s, genotypes, id_map)
       IN  /\ err' = r.err
           /\ pileups_rpm_df' = r.rpm
           /\ group_df' = r.df
           /\ tpc' = IF r.err = "none" THEN "grouped" ELSE "error"
    /\ UNCHANGED <<tableInputs, pileups_in, renorm_df, depthVars, plotVars>>

NextTable ==
    \/ NormCall
    \/ NormAgain
    \/ GroupCall

SpecTable == InitTable /\ [][NextTable]_vars

-----------------------------------------------------------------------------
InitDepth ==
    /\ bam_s \in {[k \in 1..Len(q) |-> <<q[k], BamPath(q[k])>>] : q \in DistinctSeqs(SampleIds)}
    /\ num_threads \in 1..MaxThreads
    /\ bam_index_dir \in {"none", "abs", "rel"}
    /\ fsDepth \in 0..MaxFsDepth
    /\ nextTask = 1
    /\ wpc = [w \in Workers |-> "idle"]
    /\ wtask = [w \in Workers |-> 0]
    /\ cwd = [w \in Workers |-> OrigDir]
    /\ saved_path = [w \in Workers |-> NoDir]
    /\ inScope = [w \in Workers |-> FALSE]
    /\ status = [k \in Tasks |-> "queued"]
    /\ result = [k \in Tasks |-> NoCol]
    /\ callCwd = [k \in Tasks |-> NoDir]
    /\ outOfOrder = FALSE
    /\ consumed = 0
    /\ pileups_df = <<>>
    /\ callState = "running"
    \* norm_pileups, group_pileups and plot are not called
    /\ op = "none"
    /\ pileups_in = NoTable
    /\ libsize_s = <<>>
    /\ id_map = "default"
    /\ genotypes = [kind |-> "other", g |-> <<>>]
    /\ tpc = "start"
    /\ pileups_rpm_df = NoTable
    /\ renorm_df = NoTable
    /\ group_df = NoTable
    /\ err = "none"
    /\ pileup_dfs = <<>>
    /\ order = [kind |-> "none", list |-> <<>>]
    /\ ppc = "idle"
    /\ sorder = <<>>
    /\ panel = 0
    /\ trace = 0
    /\ drawn = <<>>

inputVars == <<bam_s, num_threads, bam_index_dir, fsDepth>>
callerVars == <<consumed, pileups_df, callState>>

\* A free worker takes the next task: _samtools_depth_wrapper up to the
\* external call (lines 34-41), entering cd() when an index directory is given.
TaskStart(w) ==
    /\ callState = "running"
    /\ wpc[w] = "idle"
    /\ nextTask \in Tasks
    /\ nextTask' = nextTask + 1
    /\ IF bam_index_dir = "none"
       THEN /\ wpc' = [wpc EXCEPT ![w] = "call"]
            /\ wtask' = [wtask EXCEPT ![w] = nextTask]
            /\ status' = [status EXCEPT ![nextTask] = "running"]
            /\ callCwd' = [callCwd EXCEPT ![nextTask] = cwd[w]]
            /\ UNCHANGED <<cwd, saved_path, inScope>>
       ELSE /\ saved_path' = [saved_path EXCEPT ![w] = cwd[w]]
            /\ IF ChdirOk(cwd[w])
               THEN /\ cwd' = [cwd EXCEPT ![w] = ChdirTarget(cwd[w])]
                    /\ inScope' = [inScope EXCEPT ![w] = TRUE]
                    /\ wpc' = [wpc EXCEPT ![w] = "call"]
                    /\ wtask' = [wtask EXCEPT ![w] = nextTask]
                    /\ status' = [status EXCEPT ![nextTask] = "running"]
                    /\ callCwd' = [callCwd EXCEPT ![nextTask] = ChdirTarget(cwd[w])]
               ELSE \* os.chdir raises before the yield: the task fails
                    /\ status' = [status EXCEPT ![nextTask] = "failed"]
                    /\ UNCHANGED <<cwd, inScope, wpc, wtask, callCwd>>
    /\ outOfOrder' = (outOfOrder \/ (status'[nextTask] = "failed" /\ EarlierPending(nextTask)))
    /\ UNCHANGED <<inputVars, callerVars, result, tableVars, plotVars>>

\* The external call of worker w ends: ok, or with a nonzero exit status
\* (subprocess.check_output raises CalledProcessError inside the scope).
CallEnd(w, ok) ==
    /\ callState = "running"
    /\ wpc[w] = "call"
    /\ wpc' = [wpc EXCEPT ![w] = "idle"]
    /\ wtask' = [wtask EXCEPT ![w] = 0]
    /\ inScope' = [inScope EXCEPT ![w] = FALSE]
    /\ cwd' = [cwd EXCEPT ![w] = IF inScope[w] THEN CdExit(w, ok) ELSE cwd[w]]
    /\ status' = [status EXCEPT ![wtask[w]] = IF ok THEN "done" ELSE "failed"]
    /\ result' = [result EXCEPT ![wtask[w]] =
                     IF ok THEN WrapperResult(TaskArgs(wtask[w])) ELSE NoCol]
    /\ outOfOrder' = (outOfOrder \/ EarlierPending(wtask[w]))
    /\ UNCHANGED <<inputVars, callerVars, nextTask, saved_path, callCwd, tableVars, plotVars>>

CallOk(w) == CallEnd(w, TRUE)
CallFail(w) == CallEnd(w, FALSE)

workerVars == <<nextTask, wpc, wtask, cwd, saved_path, inScope, status, result,
                callCwd, outOfOrder>>

\* One iteration of the for loop over pool.imap (lines 56-58).
Consume ==
    /\ callState = "running"
    /\ consumed < Len(bam_s)
    /\ status[AwaitedTask(consumed)] \in {"done", "failed"}
    /\ ~ResultRaises(AwaitedTask(consumed))
    /\ pileups_df' = Append(pileups_df, result[AwaitedTask(consumed)])
    /\ consumed' = consumed + 1
    /\ UNCHANGED <<inputVars, workerVars, callState, tableVars, plotVars>>

\* next() raises: the exception leaves the with block (which terminates the
\* pool) and samtools_depth.
Raise ==
    /\ callState = "running"
    /\ consumed < Len(bam_s)
    /\ status[AwaitedTask(consumed)] \in {"done", "failed"}
    /\ ResultRaises(AwaitedTask(consumed))
    /\ callState' = "error"
    /\ UNCHANGED <<inputVars, workerVars, consumed, pileups_df, tableVars, plotVars>>

\* The loop is exhausted: lines 59-62.
Return ==
    /\ callState = "running"
    /\ consumed = Len(bam_s)
    /\ pileups_df' = Concat(pileups_df)
    /\ callState' = "returned"
    /\ UNCHANGED <<inputVars, workerVars, consumed, tableVars, plotVars>>

NextDepth ==
    \/ \E w \in Workers : TaskStart(w)
    \/ \E w \in Workers : CallOk(w)
    \/ \E w \in Workers : CallFail(w)
    \/ Consume
    \/ Raise
    \/ Return

SpecDepth == InitDepth /\ [][NextDepth]_vars

-----------------------------------------------------------------------------
(* plot: the order of the traces (lines 158-168) and the drawing loop      *)
(* (lines 173-179).  A column label is <<"int", n>> (an integer dosage) or *)
(* <<"str", n>> (the n-th sample name); a key of sorder is a label or, for *)
(* order='sorted', the integer position <<"int", i>> that argsort gives.   *)
IntLabels == {<<"int", n>> : n \in 0..MaxLabel}
StrLabels == {<<"str", n>> : n \in 1..2}

PlotTables ==
    UNION {{[k \in 1..Len(q) |-> [label |-> q[k], vals |-> Profile(lv[k])]]
              : lv \in [1..Len(q) -> 0..MaxDepth]}
             : q \in DistinctSeqs(IntLabels) \cup DistinctSeqs(StrLabels)}

\* pileup_dfs[0].sum() (line 158): the total of each column, in column order
ColumnSums(df) == [k \in 1..Len(df) |-> RatSum(df[k].vals)[1]]

Reverse(q) == [k \in 1..Len(q) |-> q[Len(q) + 1 - k]]

\* np.argsort(s) (line 166): the 0-based positions in an order of ascending
\* total; which of two equal totals comes first is left to the sort.
ArgSorts(s) ==
    {q \in DistinctOfLen(0..(Len(s) - 1), Len(s)) :
        \A a, b \in 1..Len(q) : a < b => s[q[a] + 1] <= s[q[b] + 1]}

\* lines 159-168: the possible values of sorder
SOrders(df, ord) ==
    LET s == ColumnSums(df)
    IN  CASE ord.kind = "list" -> {ord.list}
          [] ord.kind = "additive" ->
                {IF s[1] < s[Len(s)] THEN Reverse(Labels(df)) ELSE Labels(df)}
          [] ord.kind = "sorted" ->
                {[k \in 1..Len(q) |-> <<"int", Reverse(q)[k]>>] : q \in ArgSorts(s)}
          [] OTHER -> {Labels(df)}

\* `i in pileup_dfs[k]` (line 175): i is a column label of the table
HasColumn(df, key) == key \in Range(Labels(df))

InitPlot ==
    /\ \E t \in PlotTables :
          pileup_dfs \in {<<t>>, <<t, t>>, <<t, Tail(t)>>} \ {<<t, <<>>>>}
    /\ order \in {[kind |-> kd, list |-> <<>>] : kd \in {"additive", "sorted", "none"}}
                 \cup {[kind |-> "list", list |-> l] :
                         l \in {Labels(pileup_dfs[1]), Reverse(Labels(pileup_dfs[1]))}}
    /\ ppc = "start"
    /\ sorder = <<>>
    /\ panel = 0
    /\ trace = 0
    /\ drawn = [k \in 1..Len(pileup_dfs) |-> <<>>]
    \* samtools_depth, norm_pileups and group_pileups are not called
    /\ bam_s = <<>>
    /\ num_threads = 1
    /\ bam_index_dir = "none"
    /\ fsDepth = 0
    /\ nextTask = 1
    /\ wpc = <<"idle">>
    /\ wtask = <<0>>
    /\ cwd = <<OrigDir>>
    /\ saved_path = <<NoDir>>
    /\ inScope = <<FALSE>>
    /\ status = <<>>
    /\ result = <<>>
    /\ callCwd = <<>>
    /\ outOfOrder = FALSE
    /\ consumed = 0
    /\ pileups_df = <<>>
    /\ callState = "idle"
    /\ op = "none"
    /\ pileups_in = NoTable
    /\ libsize_s = <<>>
    /\ id_map = "default"
    /\ genotypes = [kind |-> "other", g |-> <<>>]
    /\ tpc = "start"
    /\ pileups_rpm_df = NoTable
    /\ renorm_df = NoTable
    /\ group_df = NoTable
    /\ err = "none"

\* lines 158-168: sorder is computed from the first table
SetOrder ==
    /\ ppc = "start"
    /\ sorder' \in SOrders(pileup_dfs[1], order)
    /\ ppc' = "draw"
    /\ panel' = 1
    /\ trace' = 1
    /\ UNCHANGED <<pileup_dfs, order, drawn, depthVars, tableVars>>

\* One iteration of `for i in sorder` in panel k (lines 174-179): the column
\* labelled i is drawn when the panel's table has one.
Draw ==
    /\ ppc = "draw"
    /\ trace <= Len(sorder)
    /\ drawn' = IF HasColumn(pileup_dfs[panel], sorder[trace])
                THEN [drawn EXCEPT ![panel] = Append(@, sorder[trace])]
                ELSE drawn
    /\ trace' = trace + 1
    /\ UNCHANGED <<pileup_dfs, order, ppc, sorder, panel, depthVars, tableVars>>

\* The loop over sorder is exhausted: on to the next panel, or out of the
\* loop over axv.
NextPanel ==
    /\ ppc = "draw"
    /\ trace > Len(sorder)
    /\ IF panel < Len(pileup_dfs)
       THEN panel' = panel + 1 /\ trace' = 1 /\ ppc' = "draw"
       ELSE ppc' = "done" /\ UNCHANGED <<panel, trace>>
    /\ UNCHANGED <<pileup_dfs, order, sorder, drawn, depthVars, tableVars>>

NextPlot ==
    \/ SetOrder
    \/ Draw
    \/ NextPanel

SpecPlot == InitPlot /\ [][NextPlot]_vars

-----------------------------------------------------------------------------
(* Claims about samtools_depth, checked under SpecDepth. *)

AnyFailed == \E k \in Tasks : status[k] = "failed"

\* C1 (as claimed): whenever a worker is outside the cd() scope after having
\* entered it, its working directory is the one saved on entry, after a
\* normal return of the external call and after its failure alike.
C1_CwdRestoredOnEveryExit ==
    \A w \in Workers :
        (~inScope[w] /\ saved_path[w] # NoDir) => cwd[w] = saved_path[w]

\* C2: the returned table has, as its k-th column, the column of the k-th
\* sample of bam_s holding that sample's own depths, whatever the pool size
\* and the order in which the tasks ended; until then the list of columns
\* is the prefix of that table consumed so far.
C2_ColumnsInSubmissionOrder ==
    /\ Len(pileups_df) = consumed
    /\ \A k \in 1..Len(pileups_df) :
          pileups_df[k] = [label |-> bam_s[k][1], depthsOf |-> bam_s[k][2]]
    /\ callState = "returned" => Len(pileups_df) = Len(bam_s)

\* C2 witness: a table was returned although the task that ended first was
\* not the first one submitted.
C2_Witness ==
    /\ callState = "returned"
    /\ num_threads > 1
    /\ Len(bam_s) > 1
    /\ outOfOrder

\* C3: once any task has failed no table is ever returned: the call is
\* still running or has ended in the error, and when nothing can move any
\* more it has ended in the error.
C3_NoTableAfterFailure ==
    AnyFailed =>
        /\ callState # "returned"
        /\ (~ENABLED NextDepth) => callState = "error"

\* C3 witness: the call ended in the error of a task that was neither the
\* first submitted nor the last to end, after taking a good result first.
C3_Witness ==
    /\ callState = "error"
    /\ consumed >= 1
    /\ \E k \in Tasks : k > consumed + 1 /\ status[k] = "done"

\* C4 (as claimed): every external call ran in the directory its own task
\* set: the index directory as resolved from the original directory (the
\* original directory itself when no index directory is given).
C4_CallRunsInOwnIndexDir ==
    \A k \in Tasks :
        callCwd[k] # NoDir =>
            callCwd[k] = (IF bam_index_dir = "none" THEN OrigDir ELSE IndexDir)

\* C10 (as claimed): while the call is running and some task has failed,
\* the caller is not waiting for a task that has not ended.
C10_FailureEndsCallWithoutWaiting ==
    (callState = "running" /\ AnyFailed) =>
        /\ consumed < Len(bam_s)
        /\ status[consumed + 1] \in {"done", "failed"}

\* C10 (amended): a table is returned only when every task is done; the
\* call ends in an error only on the failure of the task whose result is
\* next in submission order, all earlier tasks being done; and while that
\* next task has not ended the caller cannot move, whatever has failed.
C10_BlocksInSubmissionOrder ==
    /\ callState = "returned" => \A k \in Tasks : status[k] = "done"
    /\ callState = "error" =>
          /\ consumed < Len(bam_s)
          /\ status[consumed + 1] = "failed"
          /\ \A k \in 1..consumed : status[k] = "done"
    /\ (callState = "running" /\ consumed < Len(bam_s)
          /\ status[consumed + 1] \in {"queued", "running"})
       => ~ENABLED (Consume \/ Raise \/ Return)

\* C10 witness: a task has failed while the caller is still blocked on an
\* earlier task that is running.
C10_Witness ==
    /\ callState = "running"
    /\ consumed < Len(bam_s)
    /\ status[consumed + 1] = "running"
    /\ \E k \in Tasks : k > consumed + 1 /\ status[k] = "failed"

-----------------------------------------------------------------------------
(* Claims about norm_pileups and group_pileups, checked under SpecTable. *)

\* The columns of the normalized table whose label has dosage d in g.
Members(rpm, g, d) ==
    {k \in 1..Len(rpm) : \E e \in 1..Len(g) : g[e][1] = rpm[k].label /\ g[e][2] = d}

RECURSIVE SumOver(_, _, _)
SumOver(rpm, K, p) ==
    IF K = {} THEN <<0, 1>>
    ELSE LET k == CHOOSE k \in K : TRUE
         IN  RatAdd(rpm[k].vals[p], SumOver(rpm, K \ {k}, p))

C6_NormIsPerCellScaling ==
    [][(op = "norm" /\ tpc = "start" /\ tpc' = "normed") =>
          /\ pileups_in' = pileups_in
          /\ Len(pileups_rpm_df') = Len(pileups_in)
          /\ \A k \in 1..Len(pileups_in) :
                /\ pileups_rpm_df'[k].label = IdMap(id_map, pileups_in[k].label)
                /\ Len(pileups_rpm_df'[k].vals) = Len(pileups_in[k].vals)
                /\ \A p \in 1..Len(pileups_in[k].vals) :
                      RatMulInt(pileups_rpm_df'[k].vals[p], libsize_s[pileups_in[k].label])
                        = RatMulInt(pileups_in[k].vals[p], RPM)]_vars

\* C6 witness: a table of two columns with different library sizes and
\* non-zero depths was normalized.
C6_Witness ==
    /\ op = "norm" /\ tpc = "normed"
    /\ Len(pileups_in) >= 2
    /\ libsize_s[pileups_in[1].label] # libsize_s[pileups_in[2].label]
    /\ pileups_in[1].vals[1] # <<0, 1>>
    /\ pileups_in[2].vals[1] # <<0, 1>>

\* C7 (as claimed): normalizing the normalized table again, with the
\* identity remap, gives the normalized table back.
C7_NormIdempotent ==
    (op = "norm" /\ tpc = "normed2") => renorm_df = pileups_rpm_df

\* C7 (amended): normalizing again scales every cell once more by
\* 1e6 / libsize of its column; the result equals the normalized table
\* exactly when every column has library size 1e6 or holds only zeros.
C7_RenormScalesAgain ==
    (op = "norm" /\ tpc = "normed2") =>
        /\ Labels(renorm_df) = Labels(pileups_rpm_df)
        /\ \A k \in 1..Len(pileups_rpm_df) : \A p \in 1..NumPos :
              RatMulInt(renorm_df[k].vals[p], libsize_s[pileups_rpm_df[k].label])
                = RatMulInt(pileups_rpm_df[k].vals[p], RPM)
        /\ (renorm_df = pileups_rpm_df) <=>
              \A k \in 1..Len(pileups_rpm_df) :
                 \/ libsize_s[pileups_rpm_df[k].label] = RPM
                 \/ \A p \in 1..NumPos : pileups_rpm_df[k].vals[p] = <<0, 1>>

\* C7 witness: a second normalization changed a column whose library size
\* is not 1e6.
C7_Witness ==
    /\ op = "norm" /\ tpc = "normed2"
    /\ \E k \in 1..Len(pileups_rpm_df) :
          /\ libsize_s[pileups_rpm_df[k].label] # RPM
          /\ renorm_df[k] # pileups_rpm_df[k]

\* C8 (as claimed): group_pileups given an unsupported genotype source ends
\* in the configuration error (ValueError) and nothing else, without having
\* normalized the table.
C8_ErrorBeforeAnyComputation ==
    (op = "group" /\ genotypes.kind = "other" /\ tpc # "start") =>
        /\ err = "ValueError"
        /\ pileups_rpm_df = NoTable

-----------------------------------------------------------------------------
(* Claims about plot, checked under SpecPlot. *)

\* the total that s holds for the column labelled l of the first table
TotalOf(l) ==
    LET df == pileup_dfs[1]
        k == CHOOSE k \in 1..Len(df) : df[k].label = l
    IN  ColumnSums(df)[k]

\* C9 (as claimed): with order='sorted', once the panels are drawn, every
\* panel shows each column of its table exactly once, in an order of
\* descending total.
C9_SortedDrawsAllDescending ==
    (ppc = "done" /\ order.kind = "sorted") =>
        \A k \in 1..Len(pileup_dfs) :
            /\ Len(drawn[k]) = Len(pileup_dfs[k])
            /\ Range(drawn[k]) = Range(Labels(pileup_dfs[k]))
            /\ \A a, b \in 1..Len(drawn[k]) :
                  a < b => TotalOf(drawn[k][a]) >= TotalOf(drawn[k][b])

====
